---- MODULE Spec2Model ----
(***************************************************************************)
(* Model of image_sample_skip.py: main() run by world_size workers, each   *)
(* executing the sampling loop, the all_gather collectives, the           *)
(* concatenate/truncate, the rank-0 save and the final barrier.           *)
(*                                                                         *)
(* An image is represented by the identity of the sampler call that        *)
(* produced it (iteration, rank, index in batch); the all-zero tensor of   *)
(* zeros_like is a distinct value.  Pixel arithmetic (line 80) and the     *)
(* permute of the non-batch axes (line 81) keep the batch axis and are not *)
(* represented.                                                            *)
(***************************************************************************)
EXTENDS Integers, Sequences, FiniteSets, TLC

\* ---- bounds of the model ----
MaxSamples == 3
MaxBatch == 2
MaxWorld == 2
\* largest global batch batch_size * world_size
MaxGlobalBatch == 4
\* number of classes: NUM_CLASSES of diffusion_skip.script_util (line 16),
\* bounded here
NUM_CLASSES == 2

VARIABLES
    num_samples,       \* args.num_samples
    batch_size,        \* args.batch_size
    world_size,        \* dist.get_world_size()
    class_cond,        \* args.class_cond
    pc,                \* pc[w]: position of worker w in main()
    all_images,        \* all_images[w]: list of batches
    all_labels,        \* all_labels[w]: list of label batches
    classes,           \* classes[w]: labels drawn in the current iteration
    sample,            \* sample[w]: batch sampled in the current iteration
    gathered_samples,  \* gathered_samples[w]: output list of all_gather
    gathered_labels,   \* gathered_labels[w]
    arr,               \* arr[w]
    label_arr,         \* label_arr[w]
    coll,              \* coll[w]: collectives worker w has entered, in order
    calls,             \* calls[w]: history of sampler calls of worker w
    files              \* samples files written, in order

vars == <<num_samples, batch_size, world_size, class_cond, pc, all_images,
          all_labels, classes, sample, gathered_samples, gathered_labels,
          arr, label_arr, coll, calls, files>>

args == <<num_samples, batch_size, world_size, class_cond>>

Ranks == 0 .. (world_size - 1)

\* ---- values ----
Img(it, r, j) == [it |-> it, rank |-> r, idx |-> j]
ZeroImage == [it |-> 0, rank |-> 0, idx |-> 0]

\* th.zeros_like(sample): a batch of the same shape, all zero
ZerosLikeSample(s) == [j \in 1 .. Len(s) |-> ZeroImage]
\* th.zeros_like(classes)
ZerosLikeClasses(c) == [j \in 1 .. Len(c) |-> 0]

\* th.randint(low=0, high=NUM_CLASSES, size=(batch_size,))
RandintChoices == [1 .. batch_size -> 0 .. (NUM_CLASSES - 1)]

Min(a, b) == IF a <= b THEN a ELSE b
Max(a, b) == IF a >= b THEN a ELSE b

\* np.concatenate(list, axis=0) of a non-empty list of batches
RECURSIVE Concatenate(_)
Concatenate(l) == IF l = <<>> THEN <<>> ELSE Head(l) \o Concatenate(Tail(l))

\* the Python slice s[:n]
SliceTo(s, n) ==
    IF n >= 0 THEN SubSeq(s, 1, Min(n, Len(s)))
    ELSE SubSeq(s, 1, Max(0, Len(s) + n))

\* list(range(world_size)) mapped through f: a list in rank order
RankList(f) == [k \in 1 .. world_size |-> f[k - 1]]

\* ---- the loop condition, line 63 ----
LoopCond_IgnoresBatch(w) == Len(all_images[w]) < num_samples
LoopCond_OffByOne(w) == Len(all_images[w]) * batch_size <= num_samples
LoopCond(w) == Len(all_images[w]) * batch_size < num_samples

\* ---- collectives (torch.distributed) ----
\* worker w is inside its k-th collective, k = Len(coll[w]); it returns once
\* every rank has entered its k-th collective and that is the same operation
CollectiveReady(w) ==
    LET k == Len(coll[w]) IN
    \A v \in Ranks : Len(coll[v]) >= k /\ coll[v][k].op = coll[w][k].op

\* the tensors the k-th collective of w delivers, by rank
Delivered(w) == [v \in Ranks |-> coll[v][Len(coll[w])].data]

\* ---- straight-line order of the steps after the loop, lines 95-113 ----
PcAfter_BarrierBeforeSave(w, p) ==
    CASE p = "concat" -> "barrier"
      [] p = "barrier" -> "wait_barrier"
      [] p = "wait_barrier" -> "save"
      [] p = "save" -> "done"
PcAfter_BarrierRankZero(w, p) ==
    CASE p = "concat" -> "save"
      [] p = "save" -> IF w = 0 THEN "barrier" ELSE "done"
      [] p = "barrier" -> "wait_barrier"
      [] p = "wait_barrier" -> "done"
PcAfter(w, p) ==
    CASE p = "concat" -> "save"
      [] p = "save" -> "barrier"
      [] p = "barrier" -> "wait_barrier"
      [] p = "wait_barrier" -> "done"

\* ---- line 100: which rank serializes ----
IsSaver_AllRanks(w) == TRUE
IsSaver(w) == w = 0

\* ---- line 86 / 92: what is appended to the accumulated lists ----
ExtendImages_LocalOnly(w, g) == all_images[w] \o <<sample[w]>>
ExtendImages(w, g) == all_images[w] \o RankList(g)
ExtendLabels_Reversed(w, g) ==
    all_labels[w] \o [k \in 1 .. world_size |-> g[world_size - k]]
ExtendLabels(w, g) == all_labels[w] \o RankList(g)

\* np.concatenate raises ValueError on an empty list of arrays (line 95)
ConcatenateRaises_Never(l) == FALSE
ConcatenateRaises(l) == l = <<>>

\* ---- lines 95-96 and 98-99 ----
BuildArr_NoTruncate(w) == Concatenate(all_images[w])
BuildArr(w) == SliceTo(Concatenate(all_images[w]), num_samples)
BuildLabelArr(w) == SliceTo(Concatenate(all_labels[w]), num_samples)

\* ---- lines 87: is a second all_gather (labels) issued ----
GathersLabels_Always == TRUE
GathersLabels == class_cond

\* the arguments are any integers argparse accepts for num_samples (also
\* 0 and negative); batch_size and world_size are positive: the sampler is
\* called with a batch dimension of batch_size
Init ==
    /\ num_samples \in (-1) .. MaxSamples
    /\ batch_size \in 1 .. MaxBatch
    /\ world_size \in 1 .. MaxWorld
    /\ batch_size * world_size <= MaxGlobalBatch
    /\ class_cond \in BOOLEAN
    /\ pc = [w \in Ranks |-> "while"]
    /\ all_images = [w \in Ranks |-> <<>>]
    /\ all_labels = [w \in Ranks |-> <<>>]
    /\ classes = [w \in Ranks |-> <<>>]
    /\ sample = [w \in Ranks |-> <<>>]
    /\ gathered_samples = [w \in Ranks |-> <<>>]
    /\ gathered_labels = [w \in Ranks |-> <<>>]
    /\ arr = [w \in Ranks |-> <<>>]
    /\ label_arr = [w \in Ranks |-> <<>>]
    /\ coll = [w \in Ranks |-> <<>>]
    /\ calls = [w \in Ranks |-> <<>>]
    /\ files = <<>>

\* line 63: the while test
LoopTest(w) ==
    /\ pc[w] = "while"
    /\ pc' = [pc EXCEPT ![w] = IF LoopCond(w) THEN "sample" ELSE "concat"]
    /\ UNCHANGED <<args, all_images, all_labels, classes, sample,
                   gathered_samples, gathered_labels, arr, label_arr, coll,
                   calls, files>>

\* lines 64-82: draw the classes, call the sampler
Sample(w) ==
    /\ pc[w] = "sample"
    /\ \E y \in (IF class_cond THEN RandintChoices ELSE {<<>>}) :
         LET out == [j \in 1 .. batch_size |-> Img(Len(calls[w]) + 1, w, j)] IN
         /\ classes' = [classes EXCEPT ![w] = IF class_cond THEN y ELSE @]
         /\ sample' = [sample EXCEPT ![w] = out]
         /\ calls' = [calls EXCEPT ![w] = Append(@, [y |-> y, out |-> out])]
    /\ pc' = [pc EXCEPT ![w] = "gather_img"]
    /\ UNCHANGED <<args, all_images, all_labels, gathered_samples,
                   gathered_labels, arr, label_arr, coll, files>>

\* lines 84-85: allocate the output list, enter all_gather
EnterGatherImages(w) ==
    /\ pc[w] = "gather_img"
    /\ gathered_samples' = [gathered_samples EXCEPT
                              ![w] = [v \in Ranks |-> ZerosLikeSample(sample[w])]]
    /\ coll' = [coll EXCEPT ![w] = Append(@, [op |-> "all_gather", data |-> sample[w]])]
    /\ pc' = [pc EXCEPT ![w] = "wait_img"]
    /\ UNCHANGED <<args, all_images, all_labels, classes, sample,
                   gathered_labels, arr, label_arr, calls, files>>

\* lines 85-87: all_gather returns, the gathered batches are appended
LeaveGatherImages(w) ==
    /\ pc[w] = "wait_img"
    /\ CollectiveReady(w)
    /\ gathered_samples' = [gathered_samples EXCEPT ![w] = Delivered(w)]
    /\ all_images' = [all_images EXCEPT ![w] = ExtendImages(w, Delivered(w))]
    /\ pc' = [pc EXCEPT ![w] = IF GathersLabels THEN "gather_lab" ELSE "while"]
    /\ UNCHANGED <<args, all_labels, classes, sample, gathered_labels, arr,
                   label_arr, coll, calls, files>>

\* lines 88-91: allocate the label output list, enter all_gather
EnterGatherLabels(w) ==
    /\ pc[w] = "gather_lab"
    /\ gathered_labels' = [gathered_labels EXCEPT
                             ![w] = [v \in Ranks |-> ZerosLikeClasses(classes[w])]]
    /\ coll' = [coll EXCEPT ![w] = Append(@, [op |-> "all_gather", data |-> classes[w]])]
    /\ pc' = [pc EXCEPT ![w] = "wait_lab"]
    /\ UNCHANGED <<args, all_images, all_labels, classes, sample,
                   gathered_samples, arr, label_arr, calls, files>>

\* lines 91-93: all_gather returns, the gathered labels are appended
LeaveGatherLabels(w) ==
    /\ pc[w] = "wait_lab"
    /\ CollectiveReady(w)
    /\ gathered_labels' = [gathered_labels EXCEPT ![w] = Delivered(w)]
    /\ all_labels' = [all_labels EXCEPT ![w] = ExtendLabels(w, Delivered(w))]
    /\ pc' = [pc EXCEPT ![w] = "while"]
    /\ UNCHANGED <<args, all_images, classes, sample, gathered_samples, arr,
                   label_arr, coll, calls, files>>

\* lines 95-99: concatenate and truncate
Concat(w) ==
    /\ pc[w] = "concat"
    /\ IF ConcatenateRaises(all_images[w])
       THEN /\ pc' = [pc EXCEPT ![w] = "failed"]
            /\ UNCHANGED <<arr, label_arr>>
       ELSE /\ arr' = [arr EXCEPT ![w] = BuildArr(w)]
            /\ label_arr' = [label_arr EXCEPT
                               ![w] = IF class_cond THEN BuildLabelArr(w) ELSE @]
            /\ pc' = [pc EXCEPT ![w] = PcAfter(w, "concat")]
    /\ UNCHANGED <<args, all_images, all_labels, classes, sample,
                   gathered_samples, gathered_labels, coll, calls, files>>

\* lines 100-107: rank 0 writes the .npz file
Save(w) ==
    /\ pc[w] = "save"
    /\ files' = IF IsSaver(w)
                THEN Append(files, [rank |-> w,
                                    arrays |-> IF class_cond
                                               THEN <<arr[w], label_arr[w]>>
                                               ELSE <<arr[w]>>])
                ELSE files
    /\ pc' = [pc EXCEPT ![w] = PcAfter(w, "save")]
    /\ UNCHANGED <<args, all_images, all_labels, classes, sample,
                   gathered_samples, gathered_labels, arr, label_arr, coll,
                   calls>>

\* line 109: enter dist.barrier()
EnterBarrier(w) ==
    /\ pc[w] = "barrier"
    /\ coll' = [coll EXCEPT ![w] = Append(@, [op |-> "barrier", data |-> <<>>])]
    /\ pc' = [pc EXCEPT ![w] = PcAfter(w, "barrier")]
    /\ UNCHANGED <<args, all_images, all_labels, classes, sample,
                   gathered_samples, gathered_labels, arr, label_arr, calls,
                   files>>

\* lines 109-114: the barrier returns, "sampling completed" is logged
LeaveBarrier(w) ==
    /\ pc[w] = "wait_barrier"
    /\ CollectiveReady(w)
    /\ pc' = [pc EXCEPT ![w] = PcAfter(w, "wait_barrier")]
    /\ UNCHANGED <<args, all_images, all_labels, classes, sample,
                   gathered_samples, gathered_labels, arr, label_arr, coll,
                   calls, files>>

Step(w) ==
    \/ LoopTest(w)
    \/ Sample(w)
    \/ EnterGatherImages(w)
    \/ LeaveGatherImages(w)
    \/ EnterGatherLabels(w)
    \/ LeaveGatherLabels(w)
    \/ Concat(w)
    \/ Save(w)
    \/ EnterBarrier(w)
    \/ LeaveBarrier(w)

Next ==
    \/ \E w \in Ranks : LoopTest(w)
    \/ \E w \in Ranks : Sample(w)
    \/ \E w \in Ranks : EnterGatherImages(w)
    \/ \E w \in Ranks : LeaveGatherImages(w)
    \/ \E w \in Ranks : EnterGatherLabels(w)
    \/ \E w \in Ranks : LeaveGatherLabels(w)
    \/ \E w \in Ranks : Concat(w)
    \/ \E w \in Ranks : Save(w)
    \/ \E w \in Ranks : EnterBarrier(w)
    \/ \E w \in Ranks : LeaveBarrier(w)

Spec == Init /\ [][Next]_vars

\* every worker process keeps running: a sampler call returns and a
\* collective returns once every rank has entered it
FairSpec == Spec /\ \A w \in 0 .. (MaxWorld - 1) : WF_vars(w \in Ranks /\ Step(w))

\* ======================================================================
\* Properties
\* ======================================================================

\* number of loop bodies worker w has started (one sampler call each)
Iterations(w) == Len(calls[w])
\* number of collectives of kind op worker w has entered
NumOps(w, op) == Cardinality({k \in 1 .. Len(coll[w]) : coll[w][k].op = op})
NumGathers(w) == NumOps(w, "all_gather")
NumBarriers(w) == NumOps(w, "barrier")
\* images gathered so far: len(all_images) * batch_size
Total(w) == Len(all_images[w]) * batch_size
InLoop(w) == pc[w] \in {"while", "sample", "gather_img", "wait_img",
                        "gather_lab", "wait_lab"}
LeftLoop(w) == ~InLoop(w)
Waiting(w) == pc[w] \in {"wait_img", "wait_lab", "wait_barrier"}
Ended(w) == pc[w] \in {"done", "failed"}
PassedBarrier(w) == NumBarriers(w) >= 1 /\ pc[w] # "wait_barrier"
CeilDiv(a, b) == (a + b - 1) \div b
ExpectedIterations == CeilDiv(num_samples, batch_size * world_size)
\* the image at 1-based position i of the concatenation, in
\* (iteration, rank, index-in-batch) order
BatchOf(i) == (i - 1) \div batch_size
ExpectedImage(i) ==
    Img(BatchOf(i) \div world_size + 1, BatchOf(i) % world_size,
        ((i - 1) % batch_size) + 1)

\* ---------------------------------------------------------------------
\* C1: for num_samples >= 1 the image array of every samples file that is
\* written holds exactly num_samples images.
C1_SavedCount ==
    num_samples >= 1 =>
        \A k \in 1 .. Len(files) : Len(files[k].arrays[1]) = num_samples
\* a file was written although num_samples is not a multiple of
\* batch_size * world_size
C1_Witness ==
    /\ Len(files) = 1
    /\ num_samples % (batch_size * world_size) # 0
    /\ batch_size * world_size > 1
    /\ Len(files[1].arrays[1]) = num_samples

\* ---------------------------------------------------------------------
\* C2: for num_samples >= 1 every worker eventually leaves the while loop,
\* and a worker that has left it has run exactly
\* ceil(num_samples / (batch_size * world_size)) iterations.
C2_LoopTerminates ==
    num_samples >= 1 =>
        /\ [](\A w \in Ranks : LeftLoop(w) => Iterations(w) = ExpectedIterations)
        /\ <>(\A w \in Ranks : LeftLoop(w))
C2_Witness ==
    /\ num_samples % (batch_size * world_size) # 0
    /\ ExpectedIterations >= 2
    /\ world_size >= 2
    /\ \A w \in Ranks : LeftLoop(w) /\ Iterations(w) = ExpectedIterations

\* ---------------------------------------------------------------------
\* C3 as stated: each worker issues exactly one all_gather per iteration,
\* whether or not class_cond is set.
C3_OneGatherPerIteration ==
    \A w \in Ranks : pc[w] = "while" => NumGathers(w) = Iterations(w)
\* C3 amended: each worker issues exactly one all_gather per iteration when
\* class_cond is not set and exactly two (images, then labels) when it is.
C3_GathersPerIteration ==
    \A w \in Ranks :
        pc[w] = "while" =>
            NumGathers(w) = Iterations(w) * (IF class_cond THEN 2 ELSE 1)
C3_Witness ==
    /\ class_cond
    /\ \E w \in Ranks : pc[w] = "while" /\ Iterations(w) = 2 /\ NumGathers(w) = 4

\* ---------------------------------------------------------------------
\* C4: all workers issue the same sequence of collectives (all_gathers,
\* then one barrier); at the loop test every worker holds world_size batches
\* per iteration run, workers that left the loop ran the same number of
\* iterations, and no worker waits in a collective that another worker,
\* having ended or being in a different collective, never enters.
C4_SameCollectives ==
    \A w \in Ranks : \A v \in Ranks :
        /\ \A k \in 1 .. Min(Len(coll[w]), Len(coll[v])) :
               coll[w][k].op = coll[v][k].op
        /\ \A k \in 1 .. Len(coll[w]) :
               coll[w][k].op = "barrier" => k = Len(coll[w])
        /\ pc[w] = "while" => Len(all_images[w]) = Iterations(w) * world_size
        /\ (pc[w] = "while" /\ pc[v] = "while" /\ Iterations(w) = Iterations(v))
               => (Len(all_images[w]) = Len(all_images[v]) /\ LoopCond(w) = LoopCond(v))
        /\ (LeftLoop(w) /\ LeftLoop(v)) => Iterations(w) = Iterations(v)
        /\ (Waiting(w) /\ Ended(v)) => Len(coll[v]) >= Len(coll[w])
        /\ (pc[w] = "done" /\ Ended(v)) => coll[v] # <<>>
C4_Witness ==
    /\ world_size >= 2
    /\ \A w \in Ranks : pc[w] = "done" /\ Iterations(w) >= 2 /\ NumBarriers(w) = 1

\* ---------------------------------------------------------------------
\* the part of C5 that orders the barrier after the save and after the loop
C5_Order ==
    \A w \in Ranks :
        /\ PassedBarrier(w) => (Len(files) >= 1 /\ files[1].rank = 0)
        /\ NumBarriers(w) <= 1
        /\ NumBarriers(w) >= 1 => LeftLoop(w)
\* C5 as stated: no worker passes the barrier before rank 0 has written the
\* file, and every worker reaches the barrier exactly once, after its loop:
\* a worker whose run has ended has entered the barrier once.
C5_BarrierEveryRun ==
    /\ C5_Order
    /\ \A w \in Ranks : Ended(w) => NumBarriers(w) = 1
\* C5 amended: the same, for runs with num_samples >= 1 (batch_size >= 1):
\* there every worker
\* eventually has entered the barrier, exactly once.
C5_BarrierAfterSave ==
    /\ []C5_Order
    /\ num_samples >= 1 =>
         /\ [](\A w \in Ranks : Ended(w) => NumBarriers(w) = 1)
         /\ <>(\A w \in Ranks : pc[w] = "done" /\ NumBarriers(w) = 1)
C5_Witness ==
    /\ world_size >= 2
    /\ Len(files) = 1
    /\ \A w \in Ranks : pc[w] = "done" /\ NumBarriers(w) = 1

\* ---------------------------------------------------------------------
\* the part of C6 about who writes, when, and what
C6_Writer ==
    /\ Len(files) <= 1
    /\ \A k \in 1 .. Len(files) :
         /\ files[k].rank = 0
         /\ LeftLoop(0)
         /\ Len(files[k].arrays) = (IF class_cond THEN 2 ELSE 1)
         /\ files[k].arrays[1] = arr[0]
         /\ class_cond => files[k].arrays[2] = label_arr[0]
\* C6 as stated: in any run exactly one samples file is written, by rank 0:
\* when every worker's run has ended there is one file.
C6_OneFileEveryRun ==
    /\ C6_Writer
    /\ (\A w \in Ranks : Ended(w)) => Len(files) = 1
\* C6 amended: in any run with num_samples >= 1 (batch_size >= 1) exactly
\* one samples file is
\* eventually written, by rank 0, after its loop; no other rank writes one.
C6_RankZeroSaves ==
    /\ []C6_Writer
    /\ num_samples >= 1 =>
         /\ []((\A w \in Ranks : Ended(w)) => Len(files) = 1)
         /\ <>(Len(files) = 1)
C6_Witness ==
    /\ world_size >= 2
    /\ class_cond
    /\ \A w \in Ranks : pc[w] = "done"
    /\ Len(files) = 1 /\ files[1].rank = 0 /\ Len(files[1].arrays) = 2

\* ---------------------------------------------------------------------
\* the parts of C7 about the start of an iteration and the truncation
C7_Core ==
    \A w \in Ranks :
        /\ pc[w] = "sample" => Total(w) < num_samples
        /\ LeftLoop(w) => Total(w) >= num_samples
        /\ pc[w] \in {"save", "barrier", "wait_barrier", "done"} =>
              /\ Len(arr[w]) = num_samples
              /\ arr[w] = SubSeq(Concatenate(all_images[w]), 1, num_samples)
C8_GatherOrder ==
    /\ \A w \in Ranks :
         /\ pc[w] = "while" => Len(all_images[w]) = Iterations(w) * world_size
         /\ \A k \in 1 .. Len(all_images[w]) :
              LET r == (k - 1) % world_size
                  it == (k - 1) \div world_size + 1
              IN  /\ Len(calls[r]) >= it
                  /\ all_images[w][k] = calls[r][it].out
    /\ \A f \in 1 .. Len(files) :
         /\ Len(files[f].arrays[1]) = num_samples
         /\ \A i \in 1 .. Len(files[f].arrays[1]) :
              /\ files[f].arrays[1][i] # ZeroImage
              /\ files[f].arrays[1][i] = ExpectedImage(i)
              /\ \E w \in Ranks : \E k \in 1 .. Len(calls[w]) :
                   \E j \in 1 .. batch_size :
                       calls[w][k].out[j] = files[f].arrays[1][i]
C8_Witness ==
    /\ world_size >= 2
    /\ Len(files) = 1
    /\ Len(all_images[0]) > world_size
    /\ Len(files[1].arrays[1]) < Total(0)

\* ---------------------------------------------------------------------
\* C9: with class_cond, at the loop test len(all_labels) = len(all_images),
\* the saved arrays have the same length num_samples and the i-th label is
\* the class passed to the sampler call that produced the i-th image;
\* without class_cond no label is drawn, gathered or saved.
C9_LabelsAligned ==
    /\ class_cond =>
         /\ \A w \in Ranks :
              pc[w] = "while" => Len(all_labels[w]) = Len(all_images[w])
         /\ \A f \in 1 .. Len(files) :
              /\ Len(files[f].arrays) = 2
              /\ Len(files[f].arrays[1]) = num_samples
              /\ Len(files[f].arrays[2]) = num_samples
              /\ \A i \in 1 .. num_samples :
                   LET im == files[f].arrays[1][i] IN
                   files[f].arrays[2][i] = calls[im.rank][im.it].y[im.idx]
    /\ ~class_cond =>
         /\ \A w \in Ranks :
              /\ classes[w] = <<>> /\ all_labels[w] = <<>>
              /\ gathered_labels[w] = <<>> /\ label_arr[w] = <<>>
              /\ \A k \in 1 .. Len(calls[w]) : calls[w][k].y = <<>>
              /\ pc[w] \notin {"gather_lab", "wait_lab"}
         /\ \A f \in 1 .. Len(files) : Len(files[f].arrays) = 1
C9_Witness ==
    /\ class_cond /\ world_size >= 2
    /\ Len(files) = 1
    /\ num_samples >= 2
    /\ \E i \in 1 .. num_samples : \E j \in 1 .. num_samples :
         files[1].arrays[2][i] # files[1].arrays[2][j]

\* ---------------------------------------------------------------------
\* C10: with num_samples <= 0 no worker runs the loop body: no sampler
\* call, no all_gather; the concatenation fails, no file is written and no
\* worker reaches the barrier.
C10_NoSamples ==
    num_samples <= 0 =>
        /\ files = <<>>
        /\ \A w \in Ranks :
             /\ calls[w] = <<>>
             /\ coll[w] = <<>>
             /\ all_images[w] = <<>>
             /\ pc[w] \in {"while", "concat", "failed"}
C10_Witness ==
    /\ num_samples < 0
    /\ world_size >= 2
    /\ \A w \in Ranks : pc[w] = "failed"

====
